---- MODULE Spec2Model ----
(***************************************************************************)
(* Model of the image-to-mp4 slideshow generator.                          *)
(*   mp4-generator.mjs : mp4Generator and its helpers (the pipeline)       *)
(*   server script     : POST /convert_images_to_slideshow and emptyTmpDir *)
(* One invocation of the pipeline is followed from the arrival of a batch  *)
(* of image files to the settling of the promise, and for an upload to the *)
(* response and the asynchronous clean-up of the temporary directory.      *)
(* SpecServer adds a second upload request served by the same process.     *)
(***************************************************************************)
EXTENDS Integers, Sequences, FiniteSets, TLC

\* ------------------------------------------------------------------ bounds
\* Largest batch of images handed to one invocation.
MaxImages == 2
\* Longest descriptor list handed to getMp4Dimensions on its own.
MaxDimLen == 3

\* ------------------------------------------------------- the file system
\* The temporary directory of the server; all staged files live in it.
tmpDir == <<"tmp">>

\* The name ffmpeg's %d.jpg pattern gives to position k.
SeqName(k) == ToString(k) \o ".jpg"

\* Names under which a client may upload a file (multer keeps originalname).
UploadNames == {"a.png", "b.jpg", "1.jpg"}

SeqNames == {SeqName(k) : k \in 1..(MaxImages + 1)}

Paths == {Append(tmpDir, n) : n \in UploadNames \cup SeqNames}

\* Image encodings, named as sharp's metadata names its decoders.
Kinds == {"jpeg", "png"}

\* (width, height) pairs of the staged images.
StagedDims == {<<2, 3>>, <<3, 2>>}

\* (width, height) pairs of the descriptors handed to getMp4Dimensions.
DimPairs == {<<800, 600>>, <<600, 450>>, <<1000, 750>>, <<320, 240>>,
             <<375, 525>>, <<7, 1>>, <<25, 25>>, <<3, 2>>}

\* A file's content: id is the position of the image in the batch it came
\* from, kind its encoding; id 0 is "no such file".
Absent == [id |-> 0, kind |-> "none", width |-> 0, height |-> 0]

\* An image for which sharp's metadata carries no height (height is an
\* optional field of the metadata); the missing value is written 0.
NoHeightUpload == [name |-> "a.png", kind |-> "png", dim |-> <<3, 0>>]

\* One uploaded image: the name it is stored under and what it holds.
Uploads ==
  [name : UploadNames, kind : Kinds, dim : StagedDims] \cup {NoHeightUpload}

\* Every batch of at most n uploads.
Batches(n) == UNION {[1..k -> Uploads] : k \in 0..n}

\* ------------------------------------------- IEEE-754 double arithmetic
\* JavaScript numbers are binary64 values: a 53-bit significand and a power
\* of two. The significand is a leading 1 followed by 52 bits; LimbCount
\* limbs of LimbBits bits hold these 52 bits where they are computed, a
\* sequence of 53 bits (most significant first) where they are rounded.
SigBits == 53
LimbBits == 13
LimbCount == (SigBits - 1) \div LimbBits

RECURSIVE Pow2(_)
Pow2(n) == IF n = 0 THEN 1 ELSE 2 * Pow2(n - 1)

LimbBase == Pow2(LimbBits)

\* The number of bits of a natural number.
RECURSIVE BitLen(_)
BitLen(n) == IF n = 0 THEN 0 ELSE 1 + BitLen(n \div 2)

\* The integer a bit sequence (most significant bit first) denotes.
RECURSIVE BitsToInt(_)
BitsToInt(bits) ==
  IF bits = <<>> THEN 0
  ELSE 2 * BitsToInt(SubSeq(bits, 1, Len(bits) - 1)) + bits[Len(bits)]

\* Bit j (1 = most significant) of the width-bit number n.
BitOf(n, width, j) == (n \div Pow2(width - j)) % 2

\* The 53 bits of a significand given as its limbs.
LimbsToBits(limbs) ==
  SubSeq([j \in 1..SigBits |->
            IF j = 1 THEN 1
            ELSE BitOf(limbs[((j - 2) \div LimbBits) + 1], LimbBits,
                       ((j - 2) % LimbBits) + 1)],
         1, SigBits)

\* keep with bit p set and the bits after it cleared: keep + 1 when p is
\* the place of the last 0 of keep.
CarryInto(keep, exp, p) ==
  [sig |-> SubSeq([j \in 1..SigBits |->
                     IF j < p THEN keep[j] ELSE IF j = p THEN 1 ELSE 0],
                  1, SigBits),
   exp |-> exp]

\* keep + 1, zeros being the places of the 0 bits of keep: all ones carry
\* into one more bit.
Incremented(keep, exp, zeros) ==
  IF zeros = {}
    THEN [sig |-> SubSeq([j \in 1..SigBits |-> IF j = 1 THEN 1 ELSE 0],
                         1, SigBits),
          exp |-> exp + 1]
  ELSE CarryInto(keep, exp, CHOOSE j \in zeros : \A k \in zeros : k <= j)

\* Round to nearest, ties to even: keep is the kept 53-bit significand of a
\* value keep * 2^exp, up tells whether the discarded part rounds it up.
RoundSig(keep, exp, up) ==
  IF ~up THEN [sig |-> keep, exp |-> exp]
  ELSE Incremented(keep, exp, {j \in 1..SigBits : keep[j] = 0})

\* Scale a and b by powers of two until 1 <= a/b < 2; t is the power of
\* two taken out of the quotient.
RECURSIVE NormDiv(_, _, _)
NormDiv(a, b, t) ==
  IF a < b THEN NormDiv(2 * a, b, t - 1)
  ELSE IF a >= 2 * b THEN NormDiv(a, 2 * b, t + 1)
  ELSE <<a, b, t>>

\* Long division, a limb at a time: the next n limbs of r / b and the
\* remainder left, as <<limbs, remainder>>.
RECURSIVE DivLimbs(_, _, _, _)
DivLimbs(r, b, n, acc) ==
  IF n = 0 THEN <<acc, r>>
  ELSE DivLimbs((r * LimbBase) % b, b, n - 1,
                Append(acc, (r * LimbBase) \div b))

\* The quotient rounded: keep its first 53 bits, rem the remainder left of
\* the division by b, t the power of two taken out.
DivRounded(keep, rem, b, t) ==
  RoundSig(keep, t - (SigBits - 1),
           2 * rem > b \/ (2 * rem = b /\ keep[SigBits] = 1))

\* The quotient a / b of the scaled operands n = <<a, b, t>>.
DivScaled(a, b, t, q) == DivRounded(LimbsToBits(q[1]), q[2], b, t)

DivNormed(n) ==
  DivScaled(n[1], n[2], n[3], DivLimbs(n[1] - n[2], n[2], LimbCount, <<>>))

\* The double a / b for integers a > 0, b > 0: [sig, exp] with value
\* sig * 2^exp.
FDiv(a, b) == DivNormed(NormDiv(a, b, 0))

\* The limbs of a 53-bit significand: the leading bit, then LimbCount limbs.
BitsToLimbs(sig) ==
  [c \in 0..LimbCount |->
     IF c = 0 THEN sig[1]
     ELSE BitsToInt(SubSeq(sig, 2 + (c - 1) * LimbBits, 1 + c * LimbBits))]

\* limbs * h from the least significant limb up: the product's limbs, the
\* topmost one unreduced.
RECURSIVE MulLimbs(_, _, _, _, _)
MulLimbs(limbs, c, h, carry, acc) ==
  IF c = 0 THEN <<limbs[c] * h + carry>> \o acc
  ELSE MulLimbs(limbs, c - 1, h, (limbs[c] * h + carry) \div LimbBase,
                <<(limbs[c] * h + carry) % LimbBase>> \o acc)

\* The bits of the product m, whose topmost limb has top bits.
ProductBits(m, top) ==
  SubSeq([j \in 1..(top + LimbCount * LimbBits) |->
            IF j <= top THEN BitOf(m[1], top, j)
            ELSE BitOf(m[2 + ((j - top - 1) \div LimbBits)], LimbBits,
                       ((j - top - 1) % LimbBits) + 1)],
         1, top + LimbCount * LimbBits)

\* The product rounded to 53 bits: full its bits, exp the power of two of
\* its last bit.
MulRounded(full, exp) ==
  RoundSig(SubSeq(full, 1, SigBits), exp + (Len(full) - SigBits),
           /\ Len(full) > SigBits
           /\ full[SigBits + 1] = 1
           /\ \/ \E j \in (SigBits + 2)..Len(full) : full[j] = 1
              \/ full[SigBits] = 1)

MulProduct(m, exp) == MulRounded(ProductBits(m, BitLen(m[1])), exp)

\* The double x * h for a double x and an integer h > 0.
FMulInt(x, h) ==
  MulProduct(MulLimbs(BitsToLimbs(x.sig), LimbCount, h, 0, <<>>), x.exp)

\* The integer part of sig * 2^exp, rounded up; k is the number of bits
\* of sig before the binary point.
CeilAt(sig, k) ==
  IF k <= 0 THEN 1
  ELSE BitsToInt(SubSeq(sig, 1, k))
         + (IF \E j \in (k + 1)..SigBits : sig[j] = 1 THEN 1 ELSE 0)

\* Math.ceil of a positive double, as an integer.
FCeil(x) ==
  IF x.exp >= 0 THEN BitsToInt(x.sig) * Pow2(x.exp)
  ELSE CeilAt(x.sig, SigBits + x.exp)

\* ------------------------------------------------------ getMp4Dimensions
\* Math.ceil((scaleW / width) * height), in doubles as the code computes it.
ceilScaled(scaleW, width, height) ==
  FCeil(FMulInt(FDiv(scaleW, width), height))

\* ceilScaled, worked out once for the widths and heights the model draws.
ScaledHeights ==
  [t \in {<<s[1], d[1], d[2]>> : s \in StagedDims \cup DimPairs,
                                 d \in StagedDims \cup DimPairs} |->
     ceilScaled(t[1], t[2], t[3])] @@ <<>>

\* const scaledH = Math.ceil((scaleW / file.width) * file.height); a zero
\* scaleW gives 0, and so does a zero height. A missing height gives NaN,
\* which the comparison of the reducer never takes as the maximum: it
\* counts like 0.
scaledH(scaleW, file) ==
  IF scaleW = 0 \/ file.height = 0 THEN 0
  ELSE IF <<scaleW, file.width, file.height>> \in DOMAIN ScaledHeights
    THEN ScaledHeights[<<scaleW, file.width, file.height>>]
  ELSE ceilScaled(scaleW, file.width, file.height)

\* scaleWReducer without its test for the initial 0.
scaleWReducerFromZero(min, file) ==
  IF file.width < min THEN file.width ELSE min

\* The callback of the first reduce: the smallest width so far.
scaleWReducer(min, file) ==
  IF file.width < min \/ min = 0 THEN file.width ELSE min

\* The callback of the second reduce: the largest scaled height so far.
\* (sh, max) => sh > max ? sh : max
larger(sh, max) == IF sh > max THEN sh ELSE max

\* padHReducer without its comparison: the last scaled height is kept.
padHReducerLast(max, file, scaleW) == scaledH(scaleW, file)

padHReducer(max, file, scaleW) == larger(scaledH(scaleW, file), max)

RECURSIVE reduceScaleW(_, _, _)
reduceScaleW(list, k, min) ==
  IF k > Len(list) THEN min
  ELSE reduceScaleW(list, k + 1, scaleWReducer(min, list[k]))

RECURSIVE reducePadH(_, _, _, _)
reducePadH(list, k, max, scaleW) ==
  IF k > Len(list) THEN max
  ELSE reducePadH(list, k + 1, padHReducer(max, list[k], scaleW), scaleW)

\* The object returned, scaleW being the result of the first reduce.
dimensionRefs(list, scaleW) ==
  [scaleW |-> scaleW, padH |-> reducePadH(list, 1, 0, scaleW) + 2,
   padW |-> scaleW + 2]

getMp4Dimensions(list) == dimensionRefs(list, reduceScaleW(list, 1, 0))

VARIABLES
  fs,        \* path -> content: the files of the temporary directory
  files,     \* unmappedImgFiles / req.files: the batch, as records with a path
  orig,      \* for each position, the id of the content its path held at the call
  caller,    \* "none", "http" (upload handler) or "direct" (library call)
  pc,        \* position of mp4Generator
  meta,      \* per image, the state of its sharp(path).metadata() promise
  imgFiles,  \* the ImgFile list mapToInterface resolved to
  i,         \* loop index of the normalisation loop
  branch,    \* per position, the branch the loop took: "none", "rename", "convert"
  dims,      \* result of getMp4Dimensions
  err,       \* the error the invocation failed with
  stages,    \* the stages entered so far, in order
  io,        \* counts of the file and process operations started
  output,    \* the output video: "none", "written", "partial"
  response,  \* the responses sent for the upload
  cleanup,   \* emptyTmpDir: "none", "listing", "unlinking", "crashed"
  unlinks,   \* the fs.unlink calls in flight
  peer       \* a second upload request handled by the same server process

vars == <<fs, files, orig, caller, pc, meta, imgFiles, i, branch, dims, err,
          stages, io, output, response, cleanup, unlinks, peer>>

NoDims == [scaleW |-> 0, padH |-> 0, padW |-> 0]
\* What an underlying error tells: its text, and the path its text names
\* (<<>> if it names none).
NoCause == [text |-> "", path |-> <<>>]
\* An error: stage and at tell where it arose (at is the position of the
\* image, 0 if none); msg is the text the code gives it and cause the
\* underlying error the code appends to that text.
NoErr == [stage |-> "none", msg |-> "", at |-> 0, cause |-> NoCause]
NoIo == [metadata |-> 0, rename |-> 0, convert |-> 0, encode |-> 0]
NoDesc == [path |-> <<>>, height |-> 0, width |-> 0, format |-> "none"]
\* No second request: pc is the position of its handler, after tells whether
\* it was sent after the response to the first request had been received.
NoPeer == [pc |-> "none", files |-> <<>>, imgFiles |-> <<>>, i |-> 0,
           after |-> FALSE]

N == Len(files)

Init ==
  /\ fs = [p \in Paths |-> Absent]
  /\ files = <<>>
  /\ orig = <<>>
  /\ caller = "none"
  /\ pc = "idle"
  /\ meta = <<>>
  /\ imgFiles = <<>>
  /\ i = 0
  /\ branch = <<>>
  /\ dims = NoDims
  /\ err = NoErr
  /\ stages = <<>>
  /\ io = NoIo
  /\ output = "none"
  /\ response = <<>>
  /\ cleanup = "none"
  /\ unlinks = {}
  /\ peer = NoPeer

\* ------------------------------------------------------ sharp and fs
\* What sharp(path).metadata() resolves to for a readable image file.
metadataOf(path, content) ==
  [path |-> path, height |-> content.height, width |-> content.width,
   format |-> content.kind]

\* sharp(src).toFile(dst) cannot succeed without a source file, and sharp
\* refuses to write onto the file it reads.
canConvert(src, dst) == fs[src] # Absent /\ src # dst

\* The file sharp writes: the source image, re-encoded as the extension of
\* the target path asks (.jpg).
converted(content) == [content EXCEPT !.kind = "jpeg"]

\* The error sharp rejects a read with: it names the file only when the
\* file is not there.
metadataError(src) ==
  IF fs[src] = Absent
    THEN [text |-> "Input file is missing", path |-> src]
  ELSE [text |-> "Input file contains unsupported image format", path |-> <<>>]

\* The error sharp rejects sharp(src).toFile(dst) with.
convertError(src, dst) ==
  IF fs[src] = Absent
    THEN [text |-> "Input file is missing", path |-> src]
  ELSE IF src = dst
    THEN [text |-> "Cannot use same file for input and output", path |-> <<>>]
  ELSE [text |-> "Input file contains unsupported image format", path |-> <<>>]

\* The error fs.renameSync throws; its text names the path.
renameError(src) ==
  [text |-> "ENOENT: no such file or directory, rename", path |-> src]

\* The error of fluent-ffmpeg's 'error' event.
ffmpegError == [text |-> "ffmpeg exited with an error", path |-> <<>>]

\* fs.renameSync(src, dst) on the directory.
renamed(src, dst) ==
  IF src = dst THEN fs
  ELSE [fs EXCEPT ![dst] = fs[src], ![src] = Absent]

\* ------------------------------------------------------ mp4-generator.mjs
getImgDir(path) == SubSeq(path, 1, Len(path) - 1)

isJpeg(img) == img.format = "JPEG"

\* `${imgDir}/${filename}.jpg`
targetPath(imgDir, filename) == Append(imgDir, SeqName(filename))

imgDir == getImgDir(imgFiles[1].path)

\* The files a batch leaves in the directory: each upload is written under
\* its name, a later one over an earlier one of the same name.
RECURSIVE staged(_, _, _)
staged(dir, batch, k) ==
  IF k > Len(batch) THEN dir
  ELSE staged([dir EXCEPT ![Append(tmpDir, batch[k].name)] =
                 [id |-> k, kind |-> batch[k].kind,
                  width |-> batch[k].dim[1], height |-> batch[k].dim[2]]],
              batch, k + 1)

\* mp4GeneratorCalled without the length check.
mp4GeneratorCalledUnchecked(list) ==
  /\ pc' = "extract"
  /\ err' = err
  /\ stages' = <<"Validate", "Extract">>
  /\ meta' = [k \in 1..Len(list) |-> [state |-> "pending", desc |-> NoDesc]]
  /\ io' = [io EXCEPT !.metadata = Len(list)]

\* The first synchronous stretch of mp4Generator on the list given: the
\* length check, then mapToInterface starts one metadata read per image.
mp4GeneratorCalled(list) ==
  IF Len(list) < 1
    THEN /\ pc' = "failed"
         /\ err' = [stage |-> "Validate", msg |-> "No images selected.", at |-> 0,
                    cause |-> NoCause]
         /\ stages' = <<"Validate", "Failed">>
         /\ meta' = <<>>
         /\ io' = io
    ELSE /\ pc' = "extract"
         /\ err' = err
         /\ stages' = <<"Validate", "Extract">>
         /\ meta' = [k \in 1..Len(list) |-> [state |-> "pending", desc |-> NoDesc]]
         /\ io' = [io EXCEPT !.metadata = Len(list)]

\* A library caller hands a batch of files of the directory to mp4Generator.
Generate ==
  /\ caller = "none"
  /\ \E batch \in Batches(MaxImages) :
       /\ fs' = staged(fs, batch, 1)
       /\ files' = [k \in 1..Len(batch) |->
                      [path |-> Append(tmpDir, batch[k].name)]]
  /\ caller' = "direct"
  /\ orig' = [k \in 1..Len(files') |-> fs'[files'[k].path].id]
  /\ mp4GeneratorCalled(files')
  /\ UNCHANGED peer
  /\ UNCHANGED <<imgFiles, i, branch, dims, output, response, cleanup, unlinks>>

\* POST /convert_images_to_slideshow: multer has stored the uploaded files
\* in tmpDir; the handler answers 400 to an empty upload and calls
\* mp4Generator otherwise.
Upload ==
  /\ caller = "none"
  /\ \E batch \in Batches(MaxImages) :
       /\ fs' = staged(fs, batch, 1)
       /\ files' = [k \in 1..Len(batch) |->
                      [path |-> Append(tmpDir, batch[k].name)]]
  /\ caller' = "http"
  /\ orig' = [k \in 1..Len(files') |-> fs'[files'[k].path].id]
  /\ IF Len(files') < 1
       THEN /\ response' = Append(response,
                 [status |-> 400, body |-> "No image files provided."])
            /\ UNCHANGED <<pc, err, stages, meta, io>>
       ELSE /\ mp4GeneratorCalled(files')
            /\ response' = response
  /\ UNCHANGED peer
  /\ UNCHANGED <<imgFiles, i, branch, dims, output, cleanup, unlinks>>

\* MetadataSettled with the descriptors collected as the reads complete.
MetadataSettledAsCompleted(k, ok) ==
  /\ k \in 1..Len(meta)
  /\ meta[k].state = "pending"
  /\ ok => fs[files[k].path] # Absent
  /\ meta' = [meta EXCEPT ![k] =
        IF ok THEN [state |-> "ok",
                    desc |-> metadataOf(files[k].path, fs[files[k].path])]
        ELSE [state |-> "err", desc |-> NoDesc]]
  /\ IF pc # "extract"
       THEN UNCHANGED <<pc, err, stages, imgFiles, branch>>
     ELSE IF ~ok
       THEN /\ pc' = "failed"
            /\ err' = [stage |-> "Extract",
                       msg |-> "Error getting image metadata from Sharp", at |-> k,
                       cause |-> metadataError(files[k].path)]
            /\ stages' = Append(stages, "Failed")
            /\ imgFiles' = <<>>
            /\ UNCHANGED branch
     ELSE IF \A j \in 1..Len(meta) : meta'[j].state = "ok"
       THEN /\ pc' = "normalize"
            /\ imgFiles' = Append(imgFiles, meta'[k].desc)
            /\ branch' = [j \in 1..Len(meta) |-> "none"]
            /\ stages' = Append(stages, "Normalize")
            /\ err' = err
     ELSE /\ imgFiles' = Append(imgFiles, meta'[k].desc)
          /\ UNCHANGED <<pc, err, stages, branch>>
  /\ UNCHANGED peer
  /\ UNCHANGED <<fs, files, orig, caller, i, dims, io, output, response,
                 cleanup, unlinks>>

\* The promises of mapToInterface: the read of image k settles. Promise.all
\* rejects with the first failure and resolves, in list order, once every
\* read has succeeded; then the loop starts.
MetadataSettled(k, ok) ==
  /\ k \in 1..Len(meta)
  /\ meta[k].state = "pending"
  /\ ok => fs[files[k].path] # Absent
  /\ meta' = [meta EXCEPT ![k] =
        IF ok THEN [state |-> "ok",
                    desc |-> metadataOf(files[k].path, fs[files[k].path])]
        ELSE [state |-> "err", desc |-> NoDesc]]
  /\ IF pc # "extract"
       THEN UNCHANGED <<pc, err, stages, imgFiles, branch>>
     ELSE IF ~ok
       THEN /\ pc' = "failed"
            /\ err' = [stage |-> "Extract",
                       msg |-> "Error getting image metadata from Sharp", at |-> k,
                       cause |-> metadataError(files[k].path)]
            /\ stages' = Append(stages, "Failed")
            /\ UNCHANGED <<imgFiles, branch>>
     ELSE IF \A j \in 1..Len(meta) : meta'[j].state = "ok"
       THEN /\ pc' = "normalize"
            /\ imgFiles' = [j \in 1..Len(meta) |-> meta'[j].desc]
            /\ branch' = [j \in 1..Len(meta) |-> "none"]
            /\ stages' = Append(stages, "Normalize")
            /\ err' = err
     ELSE UNCHANGED <<pc, err, stages, imgFiles, branch>>
  /\ UNCHANGED peer
  /\ UNCHANGED <<fs, files, orig, caller, i, dims, io, output, response,
                 cleanup, unlinks>>

\* One turn of the loop: image i is renamed at once if it is a JPEG, and
\* its conversion is started and awaited otherwise.
NormalizeStep ==
  /\ pc = "normalize"
  /\ i < Len(imgFiles)
  /\ LET file == imgFiles[i + 1]
         filename == i + 1
         dst == targetPath(imgDir, filename)
     IN IF ~isJpeg(file)
          THEN /\ pc' = "converting"
               /\ branch' = [branch EXCEPT ![i + 1] = "convert"]
               /\ io' = [io EXCEPT !.convert = @ + 1]
               /\ UNCHANGED <<fs, i, err, stages>>
        ELSE /\ branch' = [branch EXCEPT ![i + 1] = "rename"]
             /\ io' = [io EXCEPT !.rename = @ + 1]
             /\ IF fs[file.path] # Absent
                  THEN /\ fs' = renamed(file.path, dst)
                       /\ i' = i + 1
                       /\ UNCHANGED <<pc, err, stages>>
                ELSE /\ pc' = "failed"
                     /\ err' = [stage |-> "Normalize", msg |-> "ENOENT",
                                at |-> i + 1,
                                cause |-> renameError(file.path)]
                     /\ stages' = Append(stages, "Failed")
                     /\ UNCHANGED <<fs, i>>
  /\ UNCHANGED peer
  /\ UNCHANGED <<files, orig, caller, meta, imgFiles, dims, output, response,
                 cleanup, unlinks>>

\* ConvertSettled with the source removed once it has been converted.
ConvertSettledMoving(ok) ==
  /\ pc = "converting"
  /\ LET file == imgFiles[i + 1]
         dst == targetPath(imgDir, i + 1)
     IN /\ ok => canConvert(file.path, dst)
        /\ IF ok
             THEN /\ fs' = [fs EXCEPT ![dst] = converted(fs[file.path]),
                                      ![file.path] = Absent]
                  /\ i' = i + 1
                  /\ pc' = "normalize"
                  /\ UNCHANGED <<err, stages>>
           ELSE /\ pc' = "failed"
                /\ err' = [stage |-> "Normalize",
                           msg |-> "Error converting image to jpeg", at |-> i + 1,
                           cause |-> convertError(file.path, dst)]
                /\ stages' = Append(stages, "Failed")
                /\ UNCHANGED <<fs, i>>
  /\ UNCHANGED peer
  /\ UNCHANGED <<files, orig, caller, meta, imgFiles, branch, dims, io, output,
                 response, cleanup, unlinks>>

\* ConvertSettled with the failure caught and the loop carrying on.
ConvertSettledSwallowed(ok) ==
  /\ pc = "converting"
  /\ LET file == imgFiles[i + 1]
         dst == targetPath(imgDir, i + 1)
     IN /\ ok => canConvert(file.path, dst)
        /\ fs' = IF ok THEN [fs EXCEPT ![dst] = converted(fs[file.path])] ELSE fs
        /\ err' = IF ok THEN err
                  ELSE [stage |-> "Normalize",
                        msg |-> "Error converting image to jpeg", at |-> i + 1,
                        cause |-> convertError(file.path, dst)]
        /\ i' = i + 1
        /\ pc' = "normalize"
  /\ UNCHANGED peer
  /\ UNCHANGED <<files, orig, caller, meta, imgFiles, branch, dims, io, output,
                 response, cleanup, unlinks, stages>>

\* The conversion awaited by the loop settles.
ConvertSettled(ok) ==
  /\ pc = "converting"
  /\ LET file == imgFiles[i + 1]
         dst == targetPath(imgDir, i + 1)
     IN /\ ok => canConvert(file.path, dst)
        /\ IF ok
             THEN /\ fs' = [fs EXCEPT ![dst] = converted(fs[file.path])]
                  /\ i' = i + 1
                  /\ pc' = "normalize"
                  /\ UNCHANGED <<err, stages>>
           ELSE /\ pc' = "failed"
                /\ err' = [stage |-> "Normalize",
                           msg |-> "Error converting image to jpeg", at |-> i + 1,
                           cause |-> convertError(file.path, dst)]
                /\ stages' = Append(stages, "Failed")
                /\ UNCHANGED <<fs, i>>
  /\ UNCHANGED peer
  /\ UNCHANGED <<files, orig, caller, meta, imgFiles, branch, dims, io, output,
                 response, cleanup, unlinks>>

\* StartEncode not awaiting the end of the loop.
StartEncodeEarly ==
  /\ pc = "normalize"
  /\ dims' = getMp4Dimensions(imgFiles)
  /\ pc' = "encode"
  /\ stages' = stages \o <<"Harmonize", "Encode">>
  /\ io' = [io EXCEPT !.encode = @ + 1]
  /\ UNCHANGED peer
  /\ UNCHANGED <<fs, files, orig, caller, meta, imgFiles, i, branch, err, output,
                 response, cleanup, unlinks>>

\* StartEncode with a second run of ffmpeg started while the first runs.
StartEncodeTwice ==
  /\ pc \in {"normalize", "encode"}
  /\ i = Len(imgFiles)
  /\ io.encode < 2
  /\ dims' = getMp4Dimensions(imgFiles)
  /\ pc' = "encode"
  /\ stages' = stages \o <<"Harmonize", "Encode">>
  /\ io' = [io EXCEPT !.encode = @ + 1]
  /\ UNCHANGED peer
  /\ UNCHANGED <<fs, files, orig, caller, meta, imgFiles, i, branch, err, output,
                 response, cleanup, unlinks>>

\* convertImagesToMp4, up to .run(): the dimensions are derived from the
\* descriptors and ffmpeg is started on the %d.jpg pattern.
StartEncode ==
  /\ pc = "normalize"
  /\ i = Len(imgFiles)
  /\ dims' = getMp4Dimensions(imgFiles)
  /\ pc' = "encode"
  /\ stages' = stages \o <<"Harmonize", "Encode">>
  /\ io' = [io EXCEPT !.encode = @ + 1]
  /\ UNCHANGED peer
  /\ UNCHANGED <<fs, files, orig, caller, meta, imgFiles, i, branch, err, output,
                 response, cleanup, unlinks>>

\* EncoderExit with no handler for the 'error' event: the promise of
\* convertImagesToMp4 stays pending when ffmpeg fails.
EncoderExitUnhandled(ok) ==
  /\ pc = "encode"
  /\ IF ok
       THEN /\ pc' = "done"
            /\ output' = "written"
            /\ stages' = Append(stages, "Done")
            /\ err' = err
     ELSE /\ pc' = "pending"
          /\ output' \in {"none", "partial"}
          /\ UNCHANGED <<stages, err>>
  /\ UNCHANGED peer
  /\ UNCHANGED <<fs, files, orig, caller, meta, imgFiles, i, branch, dims, io,
                 response, cleanup, unlinks>>

\* EncoderExit with an 'end' event still honoured after an 'error' event.
EncoderExitBoth(ok) ==
  /\ pc = "encode" \/ (ok /\ pc = "failed" /\ err.stage = "Encode")
  /\ IF ok
       THEN /\ pc' = "done"
            /\ output' = "written"
            /\ stages' = Append(stages, "Done")
            /\ err' = err
     ELSE /\ pc' = "failed"
          /\ output' \in {"none", "partial"}
          /\ stages' = Append(stages, "Failed")
          /\ err' = [stage |-> "Encode",
                     msg |-> "Error converting images to slideshow", at |-> 0,
                     cause |-> ffmpegError]
  /\ UNCHANGED peer
  /\ UNCHANGED <<fs, files, orig, caller, meta, imgFiles, i, branch, dims, io,
                 response, cleanup, unlinks>>

\* ffmpeg's 'end' or 'error' event settles the promise of convertImagesToMp4.
EncoderExit(ok) ==
  /\ pc = "encode"
  /\ IF ok
       THEN /\ pc' = "done"
            /\ output' = "written"
            /\ stages' = Append(stages, "Done")
            /\ err' = err
     ELSE /\ pc' = "failed"
          /\ output' \in {"none", "partial"}
          /\ stages' = Append(stages, "Failed")
          /\ err' = [stage |-> "Encode",
                     msg |-> "Error converting images to slideshow", at |-> 0,
                     cause |-> ffmpegError]
  /\ UNCHANGED peer
  /\ UNCHANGED <<fs, files, orig, caller, meta, imgFiles, i, branch, dims, io,
                 response, cleanup, unlinks>>

\* ------------------------------------------------------------ the server
\* Respond with the catch branch answering like the try branch.
RespondOk ==
  /\ caller = "http"
  /\ pc \in {"done", "failed"}
  /\ response = <<>>
  /\ cleanup' = "listing"
  /\ response' = Append(response, [status |-> 200, body |-> "Nailed it."])
  /\ UNCHANGED peer
  /\ UNCHANGED <<fs, files, orig, caller, pc, meta, imgFiles, i, branch, dims,
                 err, stages, io, output, unlinks>>

\* The handler after the await: emptyTmpDir starts reading the directory
\* and the response is sent, 200 after success and 500 with the error's
\* message after a failure.
Respond ==
  /\ caller = "http"
  /\ pc \in {"done", "failed"}
  /\ response = <<>>
  /\ cleanup' = "listing"
  /\ response' = Append(response,
        IF pc = "done" THEN [status |-> 200, body |-> "Nailed it."]
        ELSE [status |-> 500, body |-> err.msg])
  /\ UNCHANGED peer
  /\ UNCHANGED <<fs, files, orig, caller, pc, meta, imgFiles, i, branch, dims,
                 err, stages, io, output, unlinks>>

\* ReaddirDone unlinking the uploaded files only, not what the directory lists.
ReaddirDoneUploads ==
  /\ cleanup = "listing"
  /\ unlinks' = {files[k].path : k \in 1..Len(files)}
  /\ cleanup' = "unlinking"
  /\ UNCHANGED peer
  /\ UNCHANGED <<fs, files, orig, caller, pc, meta, imgFiles, i, branch, dims,
                 err, stages, io, output, response>>

\* The callback of fs.readdir: one fs.unlink is started per file listed.
ReaddirDone ==
  /\ cleanup = "listing"
  /\ unlinks' = {p \in Paths : fs[p] # Absent}
  /\ cleanup' = "unlinking"
  /\ UNCHANGED peer
  /\ UNCHANGED <<fs, files, orig, caller, pc, meta, imgFiles, i, branch, dims,
                 err, stages, io, output, response>>

\* One fs.unlink completes; its callback throws if the file was not there.
UnlinkDone(p) ==
  /\ cleanup = "unlinking"
  /\ p \in unlinks
  /\ unlinks' = unlinks \ {p}
  /\ IF fs[p] # Absent
       THEN fs' = [fs EXCEPT ![p] = Absent] /\ cleanup' = cleanup
       ELSE fs' = fs /\ cleanup' = "crashed"
  /\ UNCHANGED peer
  /\ UNCHANGED <<files, orig, caller, pc, meta, imgFiles, i, branch, dims, err,
                 stages, io, output, response>>

Next ==
  \/ Generate
  \/ Upload
  \/ \E k \in 1..MaxImages + 1, ok \in BOOLEAN : MetadataSettled(k, ok)
  \/ NormalizeStep
  \/ \E ok \in BOOLEAN : ConvertSettled(ok)
  \/ StartEncode
  \/ \E ok \in BOOLEAN : EncoderExit(ok)
  \/ Respond
  \/ ReaddirDone
  \/ \E p \in Paths : UnlinkDone(p)

Spec == Init /\ [][Next]_vars

\* The completions the event loop delivers once the work behind them is done.
Progress ==
  \/ \E k \in 1..MaxImages + 1, ok \in BOOLEAN : MetadataSettled(k, ok)
  \/ NormalizeStep
  \/ \E ok \in BOOLEAN : ConvertSettled(ok)
  \/ StartEncode
  \/ \E ok \in BOOLEAN : EncoderExit(ok)
  \/ Respond
  \/ ReaddirDone
  \/ \E p \in Paths : UnlinkDone(p)

\* Every started read, conversion, encoder run, directory listing and unlink
\* completes, and the handler is resumed when its await settles.
FairSpec == Spec /\ WF_vars(Progress)

\* ------------------------------------------------ a second upload request
\* The server handles every POST with the same handler, the same multer
\* storage and the same tmpDir. The second request is followed through the
\* steps that touch the directory: its staging by multer, its metadata
\* reads and the turns of its normalisation loop.
PeerUploads == {u \in Uploads : u.kind = "png" /\ u.dim = <<2, 3>>}

PeerBatches == [1..1 -> PeerUploads]

\* A second POST arrives while the first request is in flight or after it
\* was answered: multer stores its files in tmpDir under their original
\* names and the handler calls mp4Generator, which starts the reads.
PeerUpload ==
  /\ caller = "http"
  /\ N > 0
  /\ peer.pc = "none"
  /\ \E batch \in PeerBatches :
       /\ fs' = staged(fs, batch, 1)
       /\ peer' = [pc |-> "extract",
                   files |-> [k \in 1..Len(batch) |->
                                [path |-> Append(tmpDir, batch[k].name)]],
                   imgFiles |-> <<>>, i |-> 0, after |-> response # <<>>]
  /\ UNCHANGED <<files, orig, caller, pc, meta, imgFiles, i, branch, dims, err,
                 stages, io, output, response, cleanup, unlinks>>

\* The Promise.all of the second request's mapToInterface settles: with the
\* descriptors of its files, or with the failure of a read.
PeerExtracted(ok) ==
  /\ peer.pc = "extract"
  /\ ok => \A k \in 1..Len(peer.files) : fs[peer.files[k].path] # Absent
  /\ peer' = IF ok
               THEN [peer EXCEPT !.pc = "normalize",
                                 !.imgFiles = [k \in 1..Len(peer.files) |->
                                     metadataOf(peer.files[k].path,
                                                fs[peer.files[k].path])]]
             ELSE [peer EXCEPT !.pc = "failed"]
  /\ UNCHANGED <<fs, files, orig, caller, pc, meta, imgFiles, i, branch, dims,
                 err, stages, io, output, response, cleanup, unlinks>>

\* One turn of the second request's loop, to the settling of its conversion:
\* its image i + 1 is renamed or converted to (i + 1).jpg of the directory
\* of its first file, and after the last turn the encoder is started.
PeerNormalized(ok) ==
  /\ peer.pc = "normalize"
  /\ peer.i < Len(peer.imgFiles)
  /\ LET file == peer.imgFiles[peer.i + 1]
         dst == targetPath(getImgDir(peer.imgFiles[1].path), peer.i + 1)
     IN /\ ok => IF ~isJpeg(file) THEN canConvert(file.path, dst)
                 ELSE fs[file.path] # Absent
        /\ fs' = IF ~ok THEN fs
                 ELSE IF ~isJpeg(file)
                   THEN [fs EXCEPT ![dst] = converted(fs[file.path])]
                 ELSE renamed(file.path, dst)
        /\ peer' = IF ~ok THEN [peer EXCEPT !.pc = "failed"]
                   ELSE IF peer.i + 1 = Len(peer.imgFiles)
                     THEN [peer EXCEPT !.i = @ + 1, !.pc = "encode"]
                   ELSE [peer EXCEPT !.i = @ + 1]
  /\ UNCHANGED <<files, orig, caller, pc, meta, imgFiles, i, branch, dims, err,
                 stages, io, output, response, cleanup, unlinks>>

NextServer ==
  \/ Next
  \/ PeerUpload
  \/ \E ok \in BOOLEAN : PeerExtracted(ok)
  \/ \E ok \in BOOLEAN : PeerNormalized(ok)

\* The server with two upload requests.
SpecServer == Init /\ [][NextServer]_vars

\* ------------------------------------- getMp4Dimensions on its own inputs
Descriptors ==
  {[path |-> Append(tmpDir, "a.png"), height |-> d[2], width |-> d[1],
    format |-> "png"] : d \in DimPairs}

InitDims ==
  /\ fs = [p \in Paths |-> Absent]
  /\ files = <<>>
  /\ orig = <<>>
  /\ caller = "none"
  /\ pc = "dims"
  /\ meta = <<>>
  /\ imgFiles \in UNION {[1..k -> Descriptors] : k \in 1..MaxDimLen}
  /\ i = 0
  /\ branch = <<>>
  /\ dims = NoDims
  /\ err = NoErr
  /\ stages = <<>>
  /\ io = NoIo
  /\ output = "none"
  /\ response = <<>>
  /\ cleanup = "none"
  /\ unlinks = {}
  /\ peer = NoPeer

Harmonize ==
  /\ pc = "dims"
  /\ dims' = getMp4Dimensions(imgFiles)
  /\ pc' = "dimsDone"
  /\ UNCHANGED peer
  /\ UNCHANGED <<fs, files, orig, caller, meta, imgFiles, i, branch, err,
                 stages, io, output, response, cleanup, unlinks>>

SpecDims == InitDims /\ [][Harmonize]_vars

\* ================================================================ claims
EmptyDir == [p \in Paths |-> Absent]

\* The normalisation loop has run to its end.
NormalizationComplete == pc = "normalize" /\ i = Len(imgFiles)

\* C1: a call of mp4Generator with an empty list fails with the no-images
\* error and has started no metadata read, rename, conversion or encoder
\* run, and written nothing.
C1_EmptyListFailsBeforeIO ==
  (caller = "direct" /\ Len(files) = 0) =>
    /\ pc = "failed"
    /\ err = [stage |-> "Validate", msg |-> "No images selected.", at |-> 0,
                    cause |-> NoCause]
    /\ io = NoIo
    /\ meta = <<>>
    /\ fs = EmptyDir
    /\ output = "none"

C1_Witness == caller = "direct" /\ files = <<>> /\ pc = "failed"

\* C2: once the normalisation of a batch of N images has completed, the
\* directory holds exactly the sequence files 1.jpg .. N.jpg, and k.jpg
\* comes from the k-th image of the input list, whatever the input names.
C2_SequencedFiles ==
  NormalizationComplete =>
    /\ \A k \in 1..N : fs[targetPath(imgDir, k)].id = orig[k]
    /\ {p \in Paths : p[Len(p)] \in SeqNames /\ fs[p] # Absent}
         = {targetPath(imgDir, k) : k \in 1..N}

\* C3: an image that is a JPEG by its extracted format is renamed, never
\* converted.
C3_JpegNeverConverted ==
  \A k \in 1..Len(branch) :
    imgFiles[k].format = "jpeg" => branch[k] # "convert"

\* C4: when the conversion or rename of position k fails, the invocation
\* has failed, no later position is normalised, the encoder is not started
\* and no output video is written.
C4_NormalizeFailureAborts ==
  err.stage = "Normalize" =>
    /\ pc = "failed"
    /\ i = err.at - 1
    /\ \A j \in (err.at + 1)..N : branch[j] = "none"
    /\ io.convert + io.rename = err.at
    /\ io.encode = 0
    /\ dims = NoDims
    /\ output = "none"

C4_Witness ==
  /\ err.stage = "Normalize"
  /\ err.at = 1
  /\ N = 2
  /\ fs[targetPath(tmpDir, 2)] = Absent

\* The smallest width of a descriptor list.
MinWidth(list) ==
  CHOOSE w \in {list[k].width : k \in 1..Len(list)} :
    \A k \in 1..Len(list) : w <= list[k].width

\* ceil(a / b) for integers a >= 0, b > 0.
CeilDiv(a, b) == (a + b - 1) \div b

\* The largest of ceil(scaleW * h_i / w_i) over a descriptor list.
MaxScaledHeight(list, scaleW) ==
  CHOOSE m \in {CeilDiv(scaleW * list[k].height, list[k].width) :
                  k \in 1..Len(list)} :
    \A k \in 1..Len(list) :
      CeilDiv(scaleW * list[k].height, list[k].width) <= m

\* C5: getMp4Dimensions returns as scaleW the minimum of the widths.
C5_ScaleWIsMinWidth ==
  pc = "dimsDone" => dims.scaleW = MinWidth(imgFiles)

C5_Witness ==
  /\ pc = "dimsDone"
  /\ Len(imgFiles) = 3
  /\ [k \in 1..3 |-> imgFiles[k].width] = <<800, 600, 1000>>
  /\ dims.scaleW = 600

\* C6: getMp4Dimensions returns padW = scaleW + 2 and
\* padH = max_i ceil(scaleW * h_i / w_i) + 2.
C6_PadFormula ==
  pc = "dimsDone" =>
    /\ dims.padW = dims.scaleW + 2
    /\ dims.padH = MaxScaledHeight(imgFiles, MinWidth(imgFiles)) + 2

\* C7 as claimed: a successful invocation derives the dimensions between
\* the extraction and the normalisation.
C7_HarmonizeBeforeNormalize ==
  pc = "done" =>
    stages = <<"Validate", "Extract", "Harmonize", "Normalize", "Encode", "Done">>

\* C7 as amended: a successful invocation passes through Validate, Extract,
\* Normalize, Harmonize, Encode, Done, each once; the dimensions are derived
\* only after every image has been renamed or converted.
C7_StageOrder ==
  /\ pc = "done" =>
       stages = <<"Validate", "Extract", "Normalize", "Harmonize", "Encode", "Done">>
  /\ dims # NoDims =>
       /\ imgFiles # <<>>
       /\ i = Len(imgFiles)
       /\ \A k \in 1..Len(imgFiles) : branch[k] # "none"
  /\ (pc \in {"extract", "normalize", "converting"}) => dims = NoDims

C7_Witness == pc = "done" /\ N = 2 /\ dims # NoDims

\* What a failed invocation keeps for good.
Settled == <<pc, err, stages, io, dims, i, branch, imgFiles, output>>

\* C8: a failure of any stage leaves the invocation failed for good with
\* the error of the stage that failed: nothing of the pipeline moves after
\* it, no operation is started again and success is never reported.
C8_FailureIsTerminal ==
  /\ [](pc = "failed" <=> err # NoErr)
  /\ [](pc = "failed" =>
          /\ stages[Len(stages)] = "Failed"
          /\ err.stage = stages[Len(stages) - 1]
          /\ \A k \in 1..Len(response) : response[k].status # 200)
  /\ [](io.metadata <= N /\ io.convert + io.rename <= N /\ io.encode <= 1)
  /\ [][pc = "failed" => Settled' = Settled]_vars

C8_Witness ==
  /\ pc = "failed"
  /\ err.stage = "Encode"
  /\ response # <<>>

\* The response the handler owes in the present state.
C9_Answer ==
  IF N = 0 THEN [status |-> 400, body |-> "No image files provided."]
  ELSE IF pc = "done" THEN [status |-> 200, body |-> "Nailed it."]
  ELSE [status |-> 500, body |-> err.msg]

\* C9: an upload gets exactly one response: 400 without a call of the
\* pipeline for an empty upload, 200 exactly after a successful invocation,
\* 500 with the error's message exactly after a failed one.
C9_OneResponse ==
  /\ [](caller # "http" => response = <<>>)
  /\ [](caller = "http" =>
          /\ Len(response) <= 1
          /\ N = 0 => (response # <<>> /\ pc = "idle" /\ io = NoIo)
          /\ (N > 0 /\ response # <<>>) => pc \in {"done", "failed"}
          /\ response # <<>> => response[1] = C9_Answer)
  /\ (caller = "http") ~> (Len(response) = 1)

C9_Witness ==
  /\ caller = "http"
  /\ response = <<[status |-> 500, body |-> "Error converting image to jpeg"]>>

\* C10: after the invocation made for an upload has completed, every file
\* of the temporary directory is deleted and the directory ends up empty.
C10_TmpDirEmptied ==
  /\ [](cleanup # "crashed")
  /\ (caller = "http" /\ pc \in {"done", "failed"}) ~> (fs = EmptyDir)
  /\ [][(pc \in {"done", "failed"} /\ fs = EmptyDir) => fs' = EmptyDir]_vars

C10_Witness ==
  /\ caller = "http"
  /\ pc = "done"
  /\ N = 2
  /\ cleanup = "unlinking"
  /\ unlinks = {}
  /\ fs = EmptyDir

\* The paths the second request staged its files under and wrote its
\* sequence files to.
PeerPaths ==
  {peer.files[k].path : k \in 1..Len(peer.files)}
    \cup {targetPath(getImgDir(peer.files[1].path), k) : k \in 1..peer.i}

\* Both upload requests are between their staging and their response.
BothInFlight ==
  /\ caller = "http" /\ N > 0 /\ response = <<>>
  /\ peer.pc \in {"extract", "normalize", "encode"}

\* C11: each upload is staged into a directory of its own: while two
\* requests are in flight, no file staged, renamed or converted for the
\* one lies in the working directory of the other.
C11_FreshDirPerRequest ==
  BothInFlight =>
    \A p \in PeerPaths :
      fs[p] # Absent => getImgDir(p) # getImgDir(files[1].path)

\* C12: whatever the order in which the metadata reads complete, the
\* descriptor list has one descriptor per input, the one at index k being
\* the result of the read of input k: it has the path of input k and the
\* width, height and format of the file at that path. A failed read leaves
\* no descriptor list.
C12_DescriptorsAligned ==
  /\ (caller # "none" /\ pc # "extract" /\ imgFiles # <<>>) =>
       /\ Len(imgFiles) = N
       /\ \A k \in 1..N :
            /\ meta[k].state = "ok"
            /\ imgFiles[k] = meta[k].desc
            /\ imgFiles[k].path = files[k].path
  /\ (pc = "normalize" /\ i = 0) =>
       \A k \in 1..N :
         imgFiles[k] = metadataOf(files[k].path, fs[files[k].path])
  /\ err.stage = "Extract" => imgFiles = <<>>

C12_Witness ==
  /\ pc = "normalize"
  /\ i = 0
  /\ N = 2
  /\ imgFiles[1].path # imgFiles[2].path
  /\ imgFiles[1].width # imgFiles[2].width
  /\ imgFiles[1].format # imgFiles[2].format

\* Every turn of the loop has been taken and none has failed.
AllNormalized ==
  /\ imgFiles # <<>>
  /\ Len(imgFiles) = N
  /\ i = N
  /\ \A k \in 1..N : branch[k] # "none"
  /\ io.convert + io.rename = N
  /\ err.stage # "Normalize"

\* C13: ffmpeg is started at most once in an invocation, and only by the
\* step that follows the last turn of the loop: when it starts, and for as
\* long as it runs, the normalisation of every position 1..N has completed
\* without a failure and every sequence file 1.jpg .. N.jpg is there.
C13_EncodeOnceAfterNormalize ==
  /\ [](io.encode <= 1)
  /\ [](io.encode = 1 => AllNormalized)
  /\ [](pc = "encode" =>
          \A k \in 1..N : fs[targetPath(imgDir, k)] # Absent)
  /\ [][io.encode' # io.encode =>
          /\ io.encode = 0 /\ io.encode' = 1
          /\ pc = "normalize" /\ pc' = "encode"
          /\ AllNormalized]_vars

C13_Witness ==
  /\ pc = "encode"
  /\ N = 2
  /\ io.encode = 1
  /\ io.convert = 2

\* C14: a metadata read that yields a width or height that is not positive
\* fails, so that every descriptor the reads resolve to, and every
\* descriptor getMp4Dimensions is called with, has a positive width and
\* a positive height.
C14_DimensionsValidated ==
  /\ \A k \in 1..Len(meta) :
       meta[k].state = "ok" =>
         meta[k].desc.width > 0 /\ meta[k].desc.height > 0
  /\ dims # NoDims =>
       \A k \in 1..Len(imgFiles) :
         imgFiles[k].width > 0 /\ imgFiles[k].height > 0

\* C15: the error of a failed metadata read, conversion or rename carries
\* the underlying cause and the path of the image that failed.
C15_ErrorCarriesPathAndCause ==
  err.stage \in {"Extract", "Normalize"} =>
    /\ err.cause # NoCause
    /\ err.cause.path = files[err.at].path

\* The rearrangements of the positions 1..n.
Perms(n) ==
  {f \in [1..n -> 1..n] : \A a, b \in 1..n : a # b => f[a] # f[b]}

\* list with its elements in the order f gives.
Permuted(list, f) == [k \in 1..Len(list) |-> list[f[k]]]

\* C16: getMp4Dimensions returns the same scaleW, padW and padH for a list
\* of descriptors and for each of its rearrangements.
C16_OrderIndependent ==
  pc = "dimsDone" =>
    \A f \in Perms(Len(imgFiles)) :
      getMp4Dimensions(Permuted(imgFiles, f)) = dims

C16_Witness ==
  /\ pc = "dimsDone"
  /\ Len(imgFiles) = 3
  /\ [k \in 1..3 |-> imgFiles[k].width] = <<25, 375, 7>>
  /\ dims = [scaleW |-> 7, padH |-> 12, padW |-> 9]

\* mp4Generator has been called and its promise is not settled.
Pending == pc \in {"extract", "normalize", "converting", "encode"}

\* C17: with every started read, conversion and encoder run completing, a
\* call of mp4Generator settles, and settles once: it ends done or failed
\* and stays so, it is done only by the step in which ffmpeg reports its
\* end, and it is failed exactly when it holds an error.
C17_SettlesExactlyOnce ==
  /\ Pending ~> (pc \in {"done", "failed"})
  /\ [][(pc \in {"done", "failed"}) => pc' = pc]_vars
  /\ [][(pc # "done" /\ pc' = "done") =>
          (pc = "encode" /\ output' = "written" /\ err' = NoErr)]_vars
  /\ [](pc = "done" => err = NoErr /\ io.encode = 1)

C17_Witness ==
  /\ caller = "direct"
  /\ N = 2
  /\ pc = "failed"
  /\ err.stage = "Encode"
  /\ \A k \in 1..N : meta[k].state = "ok"

\* No input of the batch bears a sequence name k.jpg, k in 1..N.
NoSequenceNamedInput ==
  \A j, k \in 1..N : files[j].path # targetPath(getImgDir(files[1].path), k)

\* C18: when no input is named k.jpg for a k in 1..N, a turn of the loop
\* for position i + 1 leaves the source file of every other position as it
\* is, and once the loop has completed k.jpg comes from the k-th input for
\* every k in 1..N.
C18_NoCollisionWithoutSequenceNames ==
  /\ [][(NoSequenceNamedInput /\ pc \in {"normalize", "converting"}) =>
          \A j \in 1..N :
            j # i + 1 => fs'[files[j].path] = fs[files[j].path]]_vars
  /\ []((NoSequenceNamedInput /\ NormalizationComplete) =>
          \A k \in 1..N :
            /\ fs[targetPath(imgDir, k)] # Absent
            /\ fs[targetPath(imgDir, k)].id = orig[k])

C18_Witness ==
  /\ NormalizationComplete
  /\ N = 2
  /\ NoSequenceNamedInput
  /\ files[1].path # files[2].path
  /\ fs[targetPath(imgDir, 1)].id = 1
  /\ fs[targetPath(imgDir, 2)].id = 2

\* The clean-up that a request started has listed the directory and every
\* unlink it started has completed.
CleanupFinished == cleanup = "unlinking" /\ unlinks = {}

\* A file of the second request, which was sent after the response to the
\* first had been received, goes away in this step.
LaterRequestLosesFile ==
  /\ peer.after
  /\ \E p \in PeerPaths : fs[p] # Absent /\ fs'[p] = Absent

\* C19: the clean-up of a request has finished listing and deleting when
\* the response to that request is sent, so that it never deletes a file
\* staged or produced for a request the client sends after that response.
C19_CleanupBeforeResponse ==
  /\ []((caller = "http" /\ N > 0 /\ response # <<>>) => CleanupFinished)
  /\ [][~LaterRequestLosesFile]_vars

====
